---- MODULE Spec2Model ----
(***************************************************************************)
(* Model of the oil-market backend: the order-placement handler, the      *)
(* public tracking lookup, and the admin product and order edits, over the *)
(* relational schema of the initial migration.                             *)
(*                                                                         *)
(* Every action is one turn of the Node event loop: the code between two   *)
(* awaits runs without interleaving, and each awaited Prisma call is one   *)
(* statement (or one batch transaction) against the database.              *)
(***************************************************************************)
EXTENDS Integers, Sequences, FiniteSets, TLC

VARIABLES
    products,     \* table "Product":   id -> [name, price, stock]
    users,        \* table "User":      id -> [email, phone, name]
    orders,       \* table "Order":     rows in id order (id = position)
    orderItems,   \* table "OrderItem": rows in id order
    favorites,    \* table "Favorite":  rows in id order
    admins,       \* table "Admin":     id -> [username, password, role,
                  \*                            isActive, lastLogin]
    sessions,     \* session store:     session id -> the session's data
    req,          \* in-flight public requests: slot -> handler locals
    del,          \* in-flight admin product delete: the product id, or 0
    last          \* the HTTP response written by the latest handler turn

vars == <<products, users, orders, orderItems, favorites, admins, sessions,
          req, del, last>>

db == [products |-> products, users |-> users,
       orders |-> orders, orderItems |-> orderItems,
       favorites |-> favorites]

\* The tables become those of database d.
SetDb(d) ==
    /\ products' = d.products
    /\ users' = d.users
    /\ orders' = d.orders
    /\ orderItems' = d.orderItems
    /\ favorites' = d.favorites

-----------------------------------------------------------------------------
(* Bounds of the model *)

MaxStock == 2
MaxItems == 2
MaxPage == 3
MaxLimit == 2

-----------------------------------------------------------------------------
(* Value domains *)

ProductIds == {1, 2}
UserIds == {1, 2}
Slots == {"a", "b"}

\* JS null / undefined / '' for a string column, null / absent for an id.
NoText == ""
NoId == 0

\* A key with a Joi default that the body does not carry.
Undefined == "undefined"

Stocks == 0..MaxStock

\* Stock of every product of the seeded catalogue.
SeedStock == MaxStock
Quantities == 1..MaxStock

\* name/price pairs of the seed catalogue; prices are kept as whole numbers
\* of currency units.
ShellRow == [name |-> "Shell Helix Ultra 5W-40", price |-> 35]
MannolRow == [name |-> "Mannol Classic 15W-40", price |-> 15]

OrderNumbers == {"OM2611010001", "OM2611010002"}
TrackingNumbers == {"OILAAAAAAAA", "OILBBBBBBBB"}

\* Order_orderNumber_key lets the table hold one order per order number.
MaxOrders == Cardinality(OrderNumbers)

Phones == {"+79000000001", "+79000000002"}

NoAddress == [city |-> NoText, street |-> NoText, house |-> NoText]
HomeAddress == [city |-> "Kazan", street |-> "Lenina", house |-> "1"]

ValidStatuses == {"new", "processing", "shipped", "delivered", "cancelled"}

-----------------------------------------------------------------------------
(* Responses *)

NoResponse == [op |-> "none", status |-> 0]

-----------------------------------------------------------------------------
(* Request bodies of POST /api/orders *)

\* Contact part of a body: the keys of orderSchema other than items.
\* userId 2 names no stored user; clientTotal > 0 stands for a body that
\* carries a totalAmount key, which orderSchema does not declare.
Ivan == [contactName |-> "Ivan", phone |-> "+79000000001",
         email |-> "ivan@mail.ru", deliveryMethod |-> "pickup",
         deliveryAddress |-> NoAddress, userId |-> 1, clientTotal |-> 0]
Anna == [contactName |-> "Anna", phone |-> "+79000000002",
         email |-> NoText, deliveryMethod |-> "delivery",
         deliveryAddress |-> HomeAddress, userId |-> NoId, clientTotal |-> 0]
Stranger == [Anna EXCEPT !.userId = 2]
Cheat == [Anna EXCEPT !.contactName = "Oleg", !.clientTotal = 1]

Customers == {Ivan, Anna, Stranger, Cheat}

\* An order of the second user that gives the email of the first.
Borrower == [contactName |-> "Anna", phone |-> "+79000000002",
             email |-> "ivan@mail.ru", deliveryMethod |-> "pickup",
             deliveryAddress |-> NoAddress, userId |-> 2, clientTotal |-> 0]

\* One guest payload without a deliveryAddress, sent with each value of
\* deliveryMethod and with the key left out.
Walker(method) ==
    [contactName |-> "Petr", phone |-> "+79000000002",
     email |-> NoText, deliveryMethod |-> method,
     deliveryAddress |-> NoAddress, userId |-> NoId, clientTotal |-> 0]

Walkers == {Walker(m) : m \in {"delivery", "pickup", Undefined}}

\* bcrypt.hash(password, 10): the stored hash stands for the password it
\* was made from and is no password itself.
Hash(password) == <<"bcrypt", password>>

\* bcrypt.compare(password, hash)
Compare(password, hash) == hash = Hash(password)

\* Table "Admin": the administrator of the seed, and one who was set
\* inactive.  lastLogin is NoText (null) until the first login.
SeedAdmins ==
    <<[username |-> "admin", password |-> Hash("admin123"),
       email |-> "admin@oilmarket.ru", role |-> "admin",
       isActive |-> TRUE, lastLogin |-> NoText],
      [username |-> "olga", password |-> Hash("olga4567"),
       email |-> "olga@oilmarket.ru", role |-> "manager",
       isActive |-> FALSE, lastLogin |-> NoText]>>

\* new Date() at the logins.
LoginTimes == {"2026-11-01T10:00", "2026-11-01T11:00"}

\* Two browsers, each with its session cookie.
SessionIds == {"s1", "s2"}

\* A session that holds nothing: req.session.adminId is undefined.
NoSession == [adminId |-> NoId, adminRole |-> NoText]

Lines == [productId : ProductIds, quantity : Quantities]

RECURSIVE SumOf(_)
SumOf(seq) == IF seq = <<>> THEN 0 ELSE Head(seq) + SumOf(Tail(seq))

SeqsUpTo(S, n) == UNION {[1..k -> S] : k \in 1..n}

ItemLists == SeqsUpTo(Lines, MaxItems)

\* One line of any quantity, or several lines of one unit each.
SmallLists ==
    {l \in ItemLists : Len(l) = 1 \/ \A i \in DOMAIN l : l[i].quantity = 1}

-----------------------------------------------------------------------------
(* orderSchema.validate *)

\* Variant: the address is optional whatever the delivery method.
OrderSchemaErrorAddressOptional(customer, items) ==
    \/ customer.clientTotal # 0
    \/ customer.phone \notin Phones
    \/ customer.deliveryMethod \notin {"pickup", "delivery", Undefined}
    \/ Len(items) < 1
    \/ \E i \in DOMAIN items :
          items[i].productId < 1 \/ items[i].quantity < 1

\* TRUE when Joi reports an error for the body.
OrderSchemaError(customer, items) ==
    \/ customer.clientTotal # 0                       \* unknown key
    \/ customer.phone \notin Phones
    \/ customer.deliveryMethod \notin {"pickup", "delivery", Undefined}
    \/ (customer.deliveryMethod = "delivery"
          /\ customer.deliveryAddress = NoAddress)
    \/ Len(items) < 1
    \/ \E i \in DOMAIN items :
          items[i].productId < 1 \/ items[i].quantity < 1

\* The value Joi hands back for a body without error: the defaults are
\* filled in.
OrderValue(customer) ==
    [customer EXCEPT !.deliveryMethod =
        IF @ = Undefined THEN "pickup" ELSE @]

-----------------------------------------------------------------------------
(* Line-item validation of the create-order handler *)

\* prisma.product.findMany({ where: { id: { in: productIds } } }):
\* the rows whose id is among the requested ids, one per stored product.
FindMany(prods, items) ==
    {p \in DOMAIN prods : \E i \in DOMAIN items : items[i].productId = p}

Rejected(status, error, productId, name, available) ==
    [op |-> "createOrder", status |-> status, error |-> error,
     productId |-> productId, name |-> name, available |-> available]

\* Variant: the line amount forgets the quantity.
LineAmountUnit(product, item) == product.price

\* totalAmount += product.price * item.quantity
LineAmount(product, item) == product.price * item.quantity

\* The for-loop over items: i is the position of the line being checked,
\* acc the values accumulated by the earlier lines.
RECURSIVE CheckLoop(_, _, _, _, _)
CheckLoop(prods, found, items, i, acc) ==
    IF i > Len(items)
    THEN [acc EXCEPT !.status = 0]
    ELSE LET item == items[i] IN
         IF item.productId \notin found
         THEN Rejected(404, "Product not found", item.productId, NoText, 0)
         ELSE LET product == prods[item.productId] IN
              IF product.stock < item.quantity
              THEN Rejected(400, "Insufficient stock", item.productId,
                            product.name, product.stock)
              ELSE CheckLoop(prods, found, items, i + 1,
                     [status |-> 0,
                      totalAmount |->
                          acc.totalAmount + LineAmount(product, item),
                      stockUpdates |-> Append(acc.stockUpdates,
                          [id |-> item.productId,
                           stock |-> product.stock - item.quantity]),
                      orderItems |-> Append(acc.orderItems,
                          [productId |-> item.productId,
                           quantity |-> item.quantity,
                           priceEach |-> product.price])])

\* Variant: lines whose product is not found are dropped and the rest of the
\* order goes on.
CheckItemsSkipMissing(prods, items) ==
    LET found == FindMany(prods, items) IN
    CheckLoop(prods, found,
              SelectSeq(items, LAMBDA it : it.productId \in found), 1,
              [status |-> 0, totalAmount |-> 0,
               stockUpdates |-> <<>>, orderItems |-> <<>>])

\* Everything between the batch lookup and the number generation.
CheckItems(prods, items) ==
    LET found == FindMany(prods, items) IN
    IF Cardinality(found) # Len(items)
    THEN Rejected(404, "Some products not found", NoId, NoText, 0)
    ELSE CheckLoop(prods, found, items, 1,
                   [status |-> 0, totalAmount |-> 0,
                    stockUpdates |-> <<>>, orderItems |-> <<>>])

-----------------------------------------------------------------------------
(* The batch transaction of the create-order handler *)

\* generateOrderNumber / generateTrackingNumber: a date part plus a random
\* suffix; the draw does not depend on the state.
GeneratedNumbers == OrderNumbers \X TrackingNumbers

OrderRow(id, numbers, customer, totalAmount) ==
    [id |-> id,
     orderNumber |-> numbers[1],
     trackingNumber |-> numbers[2],
     userId |-> customer.userId,
     totalAmount |-> totalAmount,
     contactName |-> customer.contactName,
     phone |-> customer.phone,
     email |-> customer.email,
     deliveryMethod |-> customer.deliveryMethod,
     deliveryAddress |-> customer.deliveryAddress,
     status |-> "new",
     notes |-> NoText]

\* The statements of prisma.$transaction([order.create{items:{create}},
\* ...stockUpdates]) in execution order: the order row, its nested item
\* rows, then one product update per line.
TransactionWrites(id, numbers, customer, r) ==
    <<[kind |-> "order",
       row |-> OrderRow(id, numbers, customer, r.totalAmount)]>>
    \o [i \in DOMAIN r.orderItems |->
          [kind |-> "item",
           row |-> [orderId |-> id,
                    productId |-> r.orderItems[i].productId,
                    quantity |-> r.orderItems[i].quantity,
                    priceEach |-> r.orderItems[i].priceEach]]]
    \o [i \in DOMAIN r.stockUpdates |->
          [kind |-> "stock",
           id |-> r.stockUpdates[i].id,
           stock |-> r.stockUpdates[i].stock]]

\* Variant: the Order table has no unique index on trackingNumber.
WriteErrorNoTrackingKey(d, w) ==
    CASE w.kind = "order" ->
           IF \E i \in DOMAIN d.orders :
                 d.orders[i].orderNumber = w.row.orderNumber
           THEN "Order_orderNumber_key"
           ELSE IF w.row.userId # NoId /\ w.row.userId \notin DOMAIN d.users
           THEN "Order_userId_fkey"
           ELSE ""
      [] w.kind = "item" ->
           IF w.row.productId \notin DOMAIN d.products
           THEN "OrderItem_productId_fkey"
           ELSE ""
      [] w.kind = "stock" ->
           IF w.id \notin DOMAIN d.products
           THEN "P2025"
           ELSE ""

\* The constraint a statement violates in database d, or "" when it runs.
WriteError(d, w) ==
    CASE w.kind = "order" ->
           IF \E i \in DOMAIN d.orders :
                 d.orders[i].orderNumber = w.row.orderNumber
           THEN "Order_orderNumber_key"
           ELSE IF \E i \in DOMAIN d.orders :
                 d.orders[i].trackingNumber = w.row.trackingNumber
           THEN "Order_trackingNumber_key"
           ELSE IF w.row.userId # NoId /\ w.row.userId \notin DOMAIN d.users
           THEN "Order_userId_fkey"
           ELSE ""
      [] w.kind = "item" ->
           IF w.row.productId \notin DOMAIN d.products
           THEN "OrderItem_productId_fkey"
           ELSE ""
      [] w.kind = "stock" ->
           IF w.id \notin DOMAIN d.products
           THEN "P2025"
           ELSE ""

\* The database after one statement that runs.
ApplyWrite(d, w) ==
    CASE w.kind = "order" ->
           [d EXCEPT !.orders = Append(@, w.row)]
      [] w.kind = "item" ->
           [d EXCEPT !.orderItems = Append(@, w.row)]
      [] w.kind = "stock" ->
           [d EXCEPT !.products[w.id].stock = w.stock]

\* The statements from position i on, run against the working copy cur of
\* the database d0 the transaction started from.  A failing statement rolls
\* the whole batch back.
RECURSIVE RunFrom(_, _, _, _)
RunFrom(d0, cur, writes, i) ==
    IF i > Len(writes)
    THEN [ok |-> TRUE, db |-> cur, error |-> ""]
    ELSE LET e == WriteError(cur, writes[i]) IN
         IF e # ""
         THEN [ok |-> FALSE, db |-> d0, error |-> e]
         ELSE RunFrom(d0, ApplyWrite(cur, writes[i]), writes, i + 1)

\* Variant: the statements run one by one outside a transaction, so those
\* before a failing statement stay written.
RECURSIVE RunLoose(_, _, _)
RunLoose(cur, writes, i) ==
    IF i > Len(writes)
    THEN [ok |-> TRUE, db |-> cur, error |-> ""]
    ELSE LET e == WriteError(cur, writes[i]) IN
         IF e # ""
         THEN [ok |-> FALSE, db |-> cur, error |-> e]
         ELSE RunLoose(ApplyWrite(cur, writes[i]), writes, i + 1)

RunWithoutRollback(d, writes) == RunLoose(d, writes, 1)

RunTransaction(d, writes) == RunFrom(d, d, writes, 1)

-----------------------------------------------------------------------------
(* POST /api/orders *)

IdleReq == [pc |-> "idle"]

Pending == Cardinality({s \in Slots : req[s].pc = "validated"})

ServerError(op) == [op |-> op, status |-> 500, error |-> "Server error"]

\* Variant: the loop writes each line's stock as it goes, so the lines before
\* the one that is short of stock have been written when the handler returns.
RejectAfterWrites(response) ==
    /\ last' = response
    /\ LET items == response.request
           at == {i \in DOMAIN items :
                    /\ response.error = "Insufficient stock"
                    /\ items[i].productId = response.productId}
           before == {i \in DOMAIN items : \A k \in at : i < k}
       IN products' = [p \in DOMAIN products |->
             IF at # {} /\ \E i \in before : items[i].productId = p
             THEN [products[p] EXCEPT !.stock = @ -
                     items[CHOOSE i \in before :
                              items[i].productId = p].quantity]
             ELSE products[p]]
    /\ UNCHANGED <<users, orders, orderItems, favorites, admins, sessions, req, del>>

\* return res.status(4xx).json(...): the handler ends, nothing is written.
Reject(response) ==
    /\ last' = response
    /\ UNCHANGED <<products, users, orders, orderItems, favorites, admins, sessions, req, del>>

\* First turn: schema validation, the batch product lookup and the
\* line-item loop.  A rejection answers at once; otherwise the handler
\* holds the prepared writes and awaits the transaction.
PlaceOrderCheck(r, customer, items) ==
    /\ last = NoResponse
    /\ req[r].pc = "idle"
    /\ IF OrderSchemaError(customer, items)
       THEN Reject([op |-> "createOrder", status |-> 400,
                    error |-> "validation", request |-> items,
                    contact |-> customer,
                    productId |-> NoId, name |-> NoText, available |-> 0])
       ELSE LET res == CheckItems(products, items) IN
            IF res.status # 0
            THEN Reject([op |-> "createOrder", status |-> res.status,
                         error |-> res.error, request |-> items,
                         contact |-> customer,
                         productId |-> res.productId,
                         name |-> res.name,
                         available |-> res.available])
            ELSE /\ Len(orders) + Pending < MaxOrders
                 /\ req' = [req EXCEPT ![r] =
                       [pc |-> "validated",
                        customer |-> OrderValue(customer),
                        totalAmount |-> res.totalAmount,
                        stockUpdates |-> res.stockUpdates,
                        orderItems |-> res.orderItems]]
                 /\ UNCHANGED <<products, users, orders, orderItems, favorites, admins, sessions, del, last>>

\* Second turn: the generated numbers and the batch transaction.  When a
\* statement fails the handler's catch answers 500.
PlaceOrderCommit(r, numbers) ==
    /\ last = NoResponse
    /\ req[r].pc = "validated"
    /\ LET id == Len(orders) + 1
           tx == RunTransaction(db,
                    TransactionWrites(id, numbers, req[r].customer, req[r]))
       IN /\ SetDb(tx.db)
          /\ UNCHANGED <<admins, sessions>>
          /\ IF tx.ok
             THEN /\ req' = [req EXCEPT ![r] =
                        [pc |-> "committed",
                         customer |-> req[r].customer,
                         orderItems |-> req[r].orderItems,
                         order |-> tx.db.orders[id]]]
                  /\ UNCHANGED <<del, last>>
             ELSE /\ last' = [ServerError("createOrder") EXCEPT
                                 !.error = tx.error]
                  /\ req' = [req EXCEPT ![r] = IdleReq]
                  /\ del' = del

\* The order a 201 response reports.
Created(order, items) ==
    [op |-> "createOrder", status |-> 201, error |-> NoText,
     items |-> items,
     order |-> [id |-> order.id,
                orderNumber |-> order.orderNumber,
                trackingNumber |-> order.trackingNumber,
                totalAmount |-> order.totalAmount,
                status |-> order.status]]

\* Third turn: the user refresh (prisma.user.update) and the response.
PlaceOrderRespond(r) ==
    /\ last = NoResponse
    /\ req[r].pc = "committed"
    /\ LET c == req[r].customer IN
       IF c.userId = NoId
       THEN /\ last' = Created(req[r].order, req[r].orderItems)
            /\ users' = users
       ELSE IF \/ c.userId \notin DOMAIN users
               \/ /\ c.email # NoText
                  /\ \E u \in DOMAIN users \ {c.userId} :
                        users[u].email = c.email
            THEN /\ last' = ServerError("createOrder")
                 /\ users' = users
            ELSE /\ users' = [users EXCEPT ![c.userId] =
                       [email |-> IF c.email # NoText THEN c.email
                                  ELSE @.email,
                        phone |-> c.phone,
                        name |-> c.contactName]]
                 /\ last' = Created(req[r].order, req[r].orderItems)
    /\ req' = [req EXCEPT ![r] = IdleReq]
    /\ UNCHANGED <<products, orders, orderItems, favorites, admins, sessions, del>>

-----------------------------------------------------------------------------
(* GET /api/orders/track/:trackingNumber *)

ItemsOf(items, id) == SelectSeq(items, LAMBDA it : it.orderId = id)

\* Variant: only the delivery address is taken out of the response.
SafeOrderWithEmail(order, items) ==
    [f \in (DOMAIN order \cup {"items"}) \ {"deliveryAddress"} |->
        IF f = "items" THEN ItemsOf(items, order.id) ELSE order[f]]

\* const { deliveryAddress, email, ...safeOrder } = order, where order is
\* the row with its items included.
SafeOrder(order, items) ==
    [f \in (DOMAIN order \cup {"items"}) \ {"deliveryAddress", "email"} |->
        IF f = "items" THEN ItemsOf(items, order.id) ELSE order[f]]

TrackOrder(trackingNumber, phone) ==
    /\ last = NoResponse
    /\ LET found == {i \in DOMAIN orders :
                        orders[i].trackingNumber = trackingNumber}
           answer(status, body) ==
               [op |-> "track", status |-> status,
                trackingNumber |-> trackingNumber, phone |-> phone,
                body |-> body]
       IN IF phone = NoText
          THEN last' = answer(400, <<>>)
          ELSE IF found = {}
          THEN last' = answer(404, <<>>)
          ELSE LET order == orders[CHOOSE i \in found : TRUE] IN
               IF order.phone # phone
               THEN last' = answer(403, <<>>)
               ELSE last' = answer(200, SafeOrder(order, orderItems))
    /\ UNCHANGED <<products, users, orders, orderItems, favorites, admins, sessions, req, del>>

-----------------------------------------------------------------------------
(* Admin: products *)

\* Bodies of PUT /api/admin/products/:id: a rename and reprice that
\* restocks or empties the stock.
ProductValues ==
    {[name |-> "Shell Helix HX8 5W-40", price |-> 40, stock |-> s] :
        s \in {0, MaxStock}}

\* Bodies of the admin product routes with a stock below, at and above zero.
StockValues ==
    {[name |-> "Shell Helix HX8 5W-40", price |-> 40, stock |-> s] :
        s \in {-1, 0, 1}}

\* Variant: the schema sets no lower limit on stock.
ProductSchemaErrorAnyStock(value) ==
    \/ value.name = NoText
    \/ value.price <= 0

\* productSchema.validate, for the columns the model keeps.
ProductSchemaError(value) ==
    \/ value.name = NoText
    \/ value.price <= 0
    \/ value.stock < 0

\* Variant: the new price is also written to the line items of the product.
ProductUpdateCascade(d, id, value) ==
    [d EXCEPT !.products[id] = value,
              !.orderItems = [i \in DOMAIN @ |->
                  IF @[i].productId = id
                  THEN [@[i] EXCEPT !.priceEach = value.price]
                  ELSE @[i]]]

\* prisma.product.update({ where: { id }, data: value })
ProductUpdate(d, id, value) == [d EXCEPT !.products[id] = value]

\* PUT /api/admin/products/:id
UpdateProduct(id, value) ==
    /\ last = NoResponse
    /\ IF ProductSchemaError(value)
       THEN /\ last' = [op |-> "updateProduct", status |-> 400, id |-> id]
            /\ SetDb(db)
       ELSE IF id \notin DOMAIN products
       THEN /\ last' = [op |-> "updateProduct", status |-> 404, id |-> id]
            /\ SetDb(db)
       ELSE /\ SetDb(ProductUpdate(db, id, value))
            /\ last' = [op |-> "updateProduct", status |-> 200, id |-> id]
    /\ UNCHANGED <<admins, sessions, req, del>>

\* The catalogue holds at most one product more than the seed.
MaxProducts == Cardinality(ProductIds) + 1

\* POST /api/admin/products.  The id is the next of the SERIAL column (no
\* product has been deleted where this action is used); skuTaken tells
\* whether the sku, given or generated, is that of a stored product (P2002).
CreateProduct(value, skuTaken) ==
    /\ last = NoResponse
    /\ Len(products) < MaxProducts
    /\ IF ProductSchemaError(value)
       THEN /\ last' = [op |-> "createProduct", status |-> 400, id |-> NoId]
            /\ SetDb(db)
       ELSE IF skuTaken
       THEN /\ last' = [op |-> "createProduct", status |-> 409, id |-> NoId]
            /\ SetDb(db)
       ELSE /\ SetDb([db EXCEPT !.products = Append(@, value)])
            /\ last' = [op |-> "createProduct", status |-> 201,
                        id |-> Len(products) + 1]
    /\ UNCHANGED <<admins, sessions, req, del>>

\* DELETE /api/admin/products/:id, first turn: prisma.orderItem.count.
DeleteProductCheck(id) ==
    /\ last = NoResponse
    /\ del = NoId
    /\ IF \E i \in DOMAIN orderItems : orderItems[i].productId = id
       THEN /\ last' = [op |-> "deleteProduct", status |-> 400, id |-> id]
            /\ del' = del
       ELSE /\ del' = id
            /\ last' = last
    /\ UNCHANGED <<products, users, orders, orderItems, favorites, admins, sessions, req>>

\* Variant: OrderItem_productId_fkey does not restrict the delete.
DeleteProductCommitNoRestrict ==
    /\ last = NoResponse
    /\ del # NoId
    /\ IF del \notin DOMAIN products
       THEN /\ last' = [op |-> "deleteProduct", status |-> 404, id |-> del]
            /\ UNCHANGED <<products, favorites>>
       ELSE /\ products' = [p \in DOMAIN products \ {del} |-> products[p]]
            /\ favorites' = SelectSeq(favorites,
                                LAMBDA f : f.productId # del)
            /\ last' = [op |-> "deleteProduct", status |-> 200, id |-> del]
    /\ del' = NoId
    /\ UNCHANGED <<users, orders, orderItems, admins, sessions, req>>

\* Second turn: prisma.product.delete, under OrderItem_productId_fkey
\* ON DELETE RESTRICT.
DeleteProductCommit ==
    /\ last = NoResponse
    /\ del # NoId
    /\ IF del \notin DOMAIN products
       THEN /\ last' = [op |-> "deleteProduct", status |-> 404, id |-> del]
            /\ UNCHANGED <<products, favorites>>
       ELSE IF \E i \in DOMAIN orderItems : orderItems[i].productId = del
       THEN /\ last' = [op |-> "deleteProduct", status |-> 500, id |-> del]
            /\ UNCHANGED <<products, favorites>>
       ELSE /\ products' = [p \in DOMAIN products \ {del} |-> products[p]]
            /\ favorites' = SelectSeq(favorites,
                                LAMBDA f : f.productId # del)
            /\ last' = [op |-> "deleteProduct", status |-> 200, id |-> del]
    /\ del' = NoId
    /\ UNCHANGED <<users, orders, orderItems, admins, sessions, req>>

-----------------------------------------------------------------------------
(* Admin: orders *)

\* if (status): a key that is absent and a key that holds the empty text are
\* both skipped.
IsSet(v) == v \notin {NoText, Undefined}

\* Bodies of PUT /api/admin/orders/:id.  An absent status or trackingNumber
\* is "", hasNotes tells whether the notes key is present.
AdminOrderBodies ==
    {[status |-> "lost", trackingNumber |-> "OILAAAAAAAA",
      notes |-> "call first", hasNotes |-> TRUE]}
    \cup
    {[status |-> NoText, trackingNumber |-> t,
      notes |-> NoText, hasNotes |-> FALSE] : t \in TrackingNumbers}

\* Bodies that set a status: each of the five, one outside the five, the
\* empty text, and no status key at all (Undefined).
StatusBodies ==
    {[status |-> s, trackingNumber |-> t, notes |-> n.notes,
      hasNotes |-> n.has] :
        s \in ValidStatuses \cup {"lost", NoText, Undefined},
        t \in {NoText, "OILBBBBBBBB"},
        n \in {[notes |-> NoText, has |-> FALSE],
               [notes |-> "call first", has |-> TRUE]}}

\* Variant: an update that sets the status to "cancelled" puts the units of
\* the order's lines back into stock.
UpdateOrderRestocking(id, body) ==
    /\ last = NoResponse
    /\ IF IsSet(body.status) /\ body.status \notin ValidStatuses
       THEN /\ last' = [op |-> "updateOrder", status |-> 400, id |-> id]
            /\ UNCHANGED <<orders, products>>
       ELSE IF id \notin DOMAIN orders
       THEN /\ last' = [op |-> "updateOrder", status |-> 404, id |-> id]
            /\ UNCHANGED <<orders, products>>
       ELSE IF /\ body.trackingNumber # NoText
               /\ \E i \in DOMAIN orders \ {id} :
                     orders[i].trackingNumber = body.trackingNumber
       THEN /\ last' = [op |-> "updateOrder", status |-> 500, id |-> id]
            /\ UNCHANGED <<orders, products>>
       ELSE /\ orders' = [orders EXCEPT ![id] =
                  [@ EXCEPT
                     !.status = IF IsSet(body.status)
                                THEN body.status ELSE @,
                     !.trackingNumber = IF body.trackingNumber # NoText
                                        THEN body.trackingNumber ELSE @,
                     !.notes = IF body.hasNotes THEN body.notes ELSE @]]
            /\ products' = [p \in DOMAIN products |->
                  IF body.status = "cancelled"
                  THEN LET lines == SelectSeq(orderItems, LAMBDA it :
                                       it.orderId = id /\ it.productId = p)
                       IN [products[p] EXCEPT !.stock = @ +
                             SumOf([i \in DOMAIN lines |->
                                       lines[i].quantity])]
                  ELSE products[p]]
            /\ last' = [op |-> "updateOrder", status |-> 200, id |-> id]
    /\ UNCHANGED <<users, orderItems, favorites, admins, sessions, req, del>>

\* PUT /api/admin/orders/:id
UpdateOrder(id, body) ==
    /\ last = NoResponse
    /\ IF IsSet(body.status) /\ body.status \notin ValidStatuses
       THEN /\ last' = [op |-> "updateOrder", status |-> 400, id |-> id]
            /\ orders' = orders
       ELSE IF id \notin DOMAIN orders
       THEN /\ last' = [op |-> "updateOrder", status |-> 404, id |-> id]
            /\ orders' = orders
       ELSE IF /\ body.trackingNumber # NoText
               /\ \E i \in DOMAIN orders \ {id} :
                     orders[i].trackingNumber = body.trackingNumber
       THEN /\ last' = [op |-> "updateOrder", status |-> 500, id |-> id]
            /\ orders' = orders
       ELSE /\ orders' = [orders EXCEPT ![id] =
                  [@ EXCEPT
                     !.status = IF IsSet(body.status)
                                THEN body.status ELSE @,
                     !.trackingNumber = IF body.trackingNumber # NoText
                                        THEN body.trackingNumber ELSE @,
                     !.notes = IF body.hasNotes THEN body.notes ELSE @]]
            /\ last' = [op |-> "updateOrder", status |-> 200, id |-> id]
    /\ UNCHANGED <<products, users, orderItems, favorites, admins, sessions, req, del>>

-----------------------------------------------------------------------------
(* Admin: login, logout, status *)

\* Bodies of POST /api/admin/login: the seeded administrator with the right
\* and with a wrong password, the inactive administrator with her password,
\* a username that is not in the table, and a body with an empty password.
LoginBodies ==
    {[username |-> "admin", password |-> "admin123"],
     [username |-> "admin", password |-> "admin124"],
     [username |-> "olga", password |-> "olga4567"],
     [username |-> "nobody", password |-> "admin123"],
     [username |-> "admin", password |-> NoText]}

\* adminLoginSchema.validate
AdminLoginSchemaError(body) ==
    \/ body.username = NoText
    \/ body.password = NoText

\* prisma.admin.findUnique({ where: { username } })
AdminByUsername(username) ==
    {a \in DOMAIN admins : admins[a].username = username}

Unauthorized(s, body) ==
    [op |-> "login", status |-> 401, session |-> s, body |-> body]

\* What the first turn of the login handler does with the row it found.
LoginChecked(r, s, body, a) ==
    IF ~Compare(body.password, admins[a].password)
    THEN /\ last' = Unauthorized(s, body)
         /\ req' = req
    ELSE /\ req' = [req EXCEPT ![r] =
               [pc |-> "loginChecked", session |-> s, body |-> body,
                admin |-> [id |-> a,
                           username |-> admins[a].username,
                           email |-> admins[a].email,
                           role |-> admins[a].role]]]
         /\ last' = last

\* Variant: the active flag of the row is not looked at.
LoginFindInactiveToo(r, s, body) ==
    /\ last = NoResponse
    /\ req[r].pc = "idle"
    /\ IF AdminLoginSchemaError(body)
       THEN /\ last' = [op |-> "login", status |-> 400, session |-> s,
                        body |-> body]
            /\ req' = req
       ELSE LET found == AdminByUsername(body.username) IN
            IF found = {}
            THEN /\ last' = Unauthorized(s, body)
                 /\ req' = req
            ELSE LoginChecked(r, s, body, CHOOSE a \in found : TRUE)
    /\ UNCHANGED <<products, users, orders, orderItems, favorites, admins,
                   sessions, del>>

\* POST /api/admin/login, first turn: the schema, prisma.admin.findUnique
\* and bcrypt.compare (which reads nothing but the row already found).
LoginFind(r, s, body) ==
    /\ last = NoResponse
    /\ req[r].pc = "idle"
    /\ IF AdminLoginSchemaError(body)
       THEN /\ last' = [op |-> "login", status |-> 400, session |-> s,
                        body |-> body]
            /\ req' = req
       ELSE LET found == AdminByUsername(body.username) IN
            IF found = {} \/ \A a \in found : ~admins[a].isActive
            THEN /\ last' = Unauthorized(s, body)
                 /\ req' = req
            ELSE LoginChecked(r, s, body, CHOOSE a \in found : TRUE)
    /\ UNCHANGED <<products, users, orders, orderItems, favorites, admins,
                   sessions, del>>

\* Second turn: prisma.admin.update of lastLogin, the session keys and the
\* response.
LoginUpdate(r, now) ==
    /\ last = NoResponse
    /\ req[r].pc = "loginChecked"
    /\ admins' = [admins EXCEPT ![req[r].admin.id].lastLogin = now]
    /\ sessions' = [sessions EXCEPT ![req[r].session] =
          [adminId |-> req[r].admin.id, adminRole |-> req[r].admin.role]]
    /\ last' = [op |-> "login", status |-> 200, session |-> req[r].session,
                body |-> req[r].body, admin |-> req[r].admin]
    /\ req' = [req EXCEPT ![r] = IdleReq]
    /\ UNCHANGED <<products, users, orders, orderItems, favorites, del>>

\* POST /api/admin/logout: req.session.destroy; failed tells whether the
\* store reports an error, in which case the stored session stays.
Logout(s, failed) ==
    /\ last = NoResponse
    /\ IF failed
       THEN /\ last' = [op |-> "logout", status |-> 500, session |-> s]
            /\ sessions' = sessions
       ELSE /\ last' = [op |-> "logout", status |-> 200, session |-> s]
            /\ sessions' = [sessions EXCEPT ![s] = NoSession]
    /\ UNCHANGED <<products, users, orders, orderItems, favorites, admins,
                   req, del>>

\* GET /api/admin/status
AdminStatus(s) ==
    /\ last = NoResponse
    /\ last' = IF sessions[s].adminId # NoId
               THEN [op |-> "adminStatus", status |-> 200, session |-> s,
                     authenticated |-> TRUE]
               ELSE [op |-> "adminStatus", status |-> 401, session |-> s,
                     authenticated |-> FALSE]
    /\ UNCHANGED <<products, users, orders, orderItems, favorites, admins,
                   sessions, req, del>>

-----------------------------------------------------------------------------
(* Users: registration *)

Emails == {"ivan@mail.ru", "anna@mail.ru"}

\* Bodies of POST /register: two for a new email, one for the email of the
\* seeded user, one whose email is not an address.
RegisterBodies ==
    {[email |-> "anna@mail.ru", phone |-> "+79000000002", name |-> "Anna"],
     [email |-> "anna@mail.ru", phone |-> "+79000000001", name |-> "Anya"],
     [email |-> "ivan@mail.ru", phone |-> "+79000000001", name |-> "Vanya"],
     [email |-> "anna", phone |-> "+79000000002", name |-> "Anna"]}

\* registerSchema.validate
RegisterSchemaError(body) ==
    \/ body.email \notin Emails
    \/ body.phone \notin Phones
    \/ body.name = NoText

\* prisma.user.findUnique({ where: { email } }): the ids of the rows found.
UserByEmail(us, email) == {u \in DOMAIN us : us[u].email = email}

Registered(status, body) ==
    [op |-> "register", status |-> status,
     email |-> body.email, phone |-> body.phone, name |-> body.name]

\* First turn of POST /register: the schema and the lookup by email.
RegisterLookup(r, body) ==
    /\ last = NoResponse
    /\ req[r].pc = "idle"
    /\ IF RegisterSchemaError(body)
       THEN /\ last' = Registered(400, body)
            /\ req' = req
       ELSE IF UserByEmail(users, body.email) # {}
       THEN /\ last' = Registered(409, body)
            /\ req' = req
       ELSE /\ req' = [req EXCEPT ![r] = [pc |-> "registering",
                                           body |-> body]]
            /\ last' = last
    /\ UNCHANGED <<products, users, orders, orderItems, favorites, admins, sessions, del>>

\* The constraint prisma.user.create violates in table us, or "".
UserCreateError(us, body) ==
    IF UserByEmail(us, body.email) # {} THEN "User_email_key" ELSE ""

\* Second turn: prisma.user.create; an error goes to the catch.
RegisterCreate(r) ==
    /\ last = NoResponse
    /\ req[r].pc = "registering"
    /\ LET body == req[r].body
           id == Cardinality(DOMAIN users) + 1
       IN IF UserCreateError(users, body) # ""
          THEN /\ last' = Registered(500, body)
               /\ users' = users
          ELSE /\ users' = [u \in DOMAIN users \cup {id} |->
                     IF u = id
                     THEN [email |-> body.email, phone |-> body.phone,
                           name |-> body.name]
                     ELSE users[u]]
               /\ last' = Registered(201, body)
    /\ req' = [req EXCEPT ![r] = IdleReq]
    /\ UNCHANGED <<products, orders, orderItems, favorites, admins, sessions, del>>

-----------------------------------------------------------------------------
(* Users: favorites *)

\* The rows of the pair (userId, productId).
FavoriteRows(favs, userId, productId) ==
    {i \in DOMAIN favs :
        favs[i].userId = userId /\ favs[i].productId = productId}

Favored(status, r) ==
    [op |-> "addFavorite", status |-> status,
     userId |-> req[r].userId, productId |-> req[r].productId]

\* First turn of POST /favorites/:productId: the email of the body and the
\* lookup of the user.
AddFavoriteUser(r, email, productId) ==
    /\ last = NoResponse
    /\ req[r].pc = "idle"
    /\ IF email = NoText
       THEN /\ last' = [op |-> "addFavorite", status |-> 400,
                        userId |-> NoId, productId |-> productId]
            /\ req' = req
       ELSE IF UserByEmail(users, email) = {}
       THEN /\ last' = [op |-> "addFavorite", status |-> 404,
                        userId |-> NoId, productId |-> productId]
            /\ req' = req
       ELSE /\ req' = [req EXCEPT ![r] =
                  [pc |-> "favUser",
                   userId |-> CHOOSE u \in UserByEmail(users, email) : TRUE,
                   productId |-> productId]]
            /\ last' = last
    /\ UNCHANGED <<products, users, orders, orderItems, favorites, admins, sessions, del>>

\* Second turn: the lookup of the product.
AddFavoriteProduct(r) ==
    /\ last = NoResponse
    /\ req[r].pc = "favUser"
    /\ IF req[r].productId \notin DOMAIN products
       THEN /\ last' = Favored(404, r)
            /\ req' = [req EXCEPT ![r] = IdleReq]
       ELSE /\ req' = [req EXCEPT ![r] = [@ EXCEPT !.pc = "favProduct"]]
            /\ last' = last
    /\ UNCHANGED <<products, users, orders, orderItems, favorites, admins, sessions, del>>

\* The constraint an insert of the pair violates, or "".
FavoriteCreateError(d, userId, productId) ==
    IF FavoriteRows(d.favorites, userId, productId) # {}
    THEN "Favorite_userId_productId_key"
    ELSE IF userId \notin DOMAIN d.users
    THEN "Favorite_userId_fkey"
    ELSE IF productId \notin DOMAIN d.products
    THEN "Favorite_productId_fkey"
    ELSE ""

\* The table after the write half of the upsert: update: {} leaves a row
\* that was found as it is, create appends the pair.
FavoriteWrite(favs, found, userId, productId) ==
    IF found
    THEN favs
    ELSE Append(favs, [userId |-> userId, productId |-> productId])

\* Third turn: prisma.favorite.upsert.  The selection has a nested read
\* (include product), so the client runs the upsert as a lookup of the pair
\* followed by an update or a create; this is the lookup.
AddFavoriteFind(r) ==
    /\ last = NoResponse
    /\ req[r].pc = "favProduct"
    /\ req' = [req EXCEPT ![r] =
          [pc |-> "favFound",
           userId |-> req[r].userId,
           productId |-> req[r].productId,
           found |-> FavoriteRows(favorites, req[r].userId,
                                  req[r].productId) # {}]]
    /\ UNCHANGED <<products, users, orders, orderItems, favorites, admins, sessions, del, last>>

\* The update or create of the upsert, and the response.
AddFavoriteWrite(r) ==
    /\ last = NoResponse
    /\ req[r].pc = "favFound"
    /\ IF \/ /\ ~req[r].found
             /\ FavoriteCreateError(db, req[r].userId,
                                    req[r].productId) # ""
          \/ /\ req[r].found           \* the row to update is gone: P2025
             /\ FavoriteRows(favorites, req[r].userId,
                             req[r].productId) = {}
       THEN /\ last' = Favored(500, r)
            /\ favorites' = favorites
       ELSE /\ favorites' = FavoriteWrite(favorites, req[r].found,
                                          req[r].userId, req[r].productId)
            /\ last' = Favored(200, r)
    /\ req' = [req EXCEPT ![r] = IdleReq]
    /\ UNCHANGED <<products, users, orders, orderItems, admins, sessions, del>>

\* DELETE /favorites/:productId: the lookup of the user, then deleteMany.
RemoveFavoriteUser(r, email, productId) ==
    /\ last = NoResponse
    /\ req[r].pc = "idle"
    /\ IF email = NoText
       THEN /\ last' = [op |-> "removeFavorite", status |-> 400,
                        userId |-> NoId, productId |-> productId]
            /\ req' = req
       ELSE IF UserByEmail(users, email) = {}
       THEN /\ last' = [op |-> "removeFavorite", status |-> 404,
                        userId |-> NoId, productId |-> productId]
            /\ req' = req
       ELSE /\ req' = [req EXCEPT ![r] =
                  [pc |-> "unfavUser",
                   userId |-> CHOOSE u \in UserByEmail(users, email) : TRUE,
                   productId |-> productId]]
            /\ last' = last
    /\ UNCHANGED <<products, users, orders, orderItems, favorites, admins, sessions, del>>

RemoveFavoriteDelete(r) ==
    /\ last = NoResponse
    /\ req[r].pc = "unfavUser"
    /\ favorites' = SelectSeq(favorites,
          LAMBDA f : ~(f.userId = req[r].userId
                        /\ f.productId = req[r].productId))
    /\ last' = [op |-> "removeFavorite", status |-> 200,
                userId |-> req[r].userId, productId |-> req[r].productId]
    /\ req' = [req EXCEPT ![r] = IdleReq]
    /\ UNCHANGED <<products, users, orders, orderItems, admins, sessions, del>>

-----------------------------------------------------------------------------
(* Texts and numbers of the catalogue query *)

\* The catalogue query reads texts character by character (a search is a
\* substring match, a number is parsed from its digits), so the texts of
\* the catalogue rows and of the query string are sequences of characters.
\* Alphabet lists the characters in code order.
Alphabet ==
    <<" ", "-", ".", "0", "1", "2", "3", "4", "5", "6", "7", "8", "9",
      "A", "B", "C", "D", "E", "F", "G", "H", "I", "J", "K", "L", "M",
      "N", "O", "P", "Q", "R", "S", "T", "U", "V", "W", "X", "Y", "Z",
      "a", "b", "c", "d", "e", "f", "g", "h", "i", "j", "k", "l", "m",
      "n", "o", "p", "q", "r", "s", "t", "u", "v", "w", "x", "y", "z">>

Code(c) == CHOOSE i \in DOMAIN Alphabet : Alphabet[i] = c

IsDigit(c) == Code("0") <= Code(c) /\ Code(c) <= Code("9")

DigitValue(c) == Code(c) - Code("0")

IsUpper(c) == Code("A") <= Code(c) /\ Code(c) <= Code("Z")

\* mode: 'insensitive' compares the texts with their letters folded.
Fold(text) ==
    [i \in DOMAIN text |->
        IF IsUpper(text[i])
        THEN Alphabet[Code(text[i]) + (Code("a") - Code("A"))]
        ELSE text[i]]

\* { contains: part }
Contains(text, part) ==
    \E i \in 0..(Len(text) - Len(part)) :
        SubSeq(text, i + 1, i + Len(part)) = part

\* Array.prototype.sort() without a comparator: by code units.
RECURSIVE TextBefore(_, _)
TextBefore(a, b) ==
    IF a = <<>> THEN b # <<>>
    ELSE IF b = <<>> THEN FALSE
    ELSE IF Head(a) # Head(b) THEN Code(Head(a)) < Code(Head(b))
    ELSE TextBefore(Tail(a), Tail(b))

\* The result of a parse that finds no number.  The texts of the model
\* carry no sign, so no parse yields a negative number.
NaN == -1

\* A key that req.query does not carry, and a column that is null.
NoParam == <<"undefined">>
NullText == <<"null">>

\* The length of the longest run of digits text has from position i on.
RECURSIVE DigitRun(_, _)
DigitRun(text, i) ==
    IF i > Len(text) \/ ~IsDigit(text[i]) THEN 0
    ELSE 1 + DigitRun(text, i + 1)

\* The number a run of digits writes.
RECURSIVE DigitsValue(_)
DigitsValue(digits) ==
    IF digits = <<>> THEN 0
    ELSE 10 * DigitsValue(SubSeq(digits, 1, Len(digits) - 1))
            + DigitValue(digits[Len(digits)])

\* parseInt(text) for a text without sign and leading blanks: the digits
\* it starts with, whatever follows them; NaN when it starts with none.
ParseInt(text) ==
    LET n == DigitRun(text, 1) IN
    IF n = 0 THEN NaN ELSE DigitsValue(SubSeq(text, 1, n))

\* parseFloat(text) for a text without sign, blanks and exponent, in
\* hundredths: the digits it starts with and the first two decimals after a
\* point; NaN when it has neither.
ParseFloat(text) ==
    LET n == DigitRun(text, 1)
        point == n < Len(text) /\ text[n + 1] = "."
        m == IF point THEN DigitRun(text, n + 2) ELSE 0
        decimals == SubSeq(text, n + 2, n + 1 + m)
    IN IF n = 0 /\ m = 0 THEN NaN
       ELSE 100 * DigitsValue(SubSeq(text, 1, n))
              + (IF m = 0 THEN 0
                 ELSE IF m = 1 THEN 10 * DigitsValue(decimals)
                 ELSE DigitsValue(SubSeq(decimals, 1, 2)))

-----------------------------------------------------------------------------
(* GET /api/products *)

CatalogIds == {1, 2, 3}

\* Rows of the catalogue with every column the query reads.  description
\* and sku are nullable (NullText); price is in whole currency units and
\* createdAt is the position in the order of insertion.
CatalogRow(id, price, stock) ==
    CASE id = 1 ->
           [id |-> 1, createdAt |-> 1, price |-> price, stock |-> stock,
            sku |-> <<"S", "H", "-", "1">>,
            name |-> <<"S", "h", "e", "l", "l", " ", "U", "l", "t", "r", "a">>,
            description |-> NullText,
            brand |-> <<"S", "h", "e", "l", "l">>,
            type |-> <<"s", "y", "n", "t", "h", "e", "t", "i", "c">>,
            viscosity |-> <<"5", "W", "-", "4", "0">>,
            volume_ml |-> 4000,
            application |-> <<"u", "n", "i", "v", "e", "r", "s", "a", "l">>]
      [] id = 2 ->
           [id |-> 2, createdAt |-> 2, price |-> price, stock |-> stock,
            sku |-> NullText,
            name |-> <<"M", "a", "n", "n", "o", "l", " ", "C", "l", "a", "s",
                       "s", "i", "c">>,
            description |-> <<"D", "i", "e", "s", "e", "l", " ", "t", "r",
                              "u", "c", "k", "s">>,
            brand |-> <<"M", "a", "n", "n", "o", "l">>,
            type |-> <<"m", "i", "n", "e", "r", "a", "l">>,
            viscosity |-> <<"1", "5", "W", "-", "4", "0">>,
            volume_ml |-> 5000,
            application |-> <<"c", "o", "m", "m", "e", "r", "c", "i", "a",
                              "l">>]
      [] id = 3 ->
           [id |-> 3, createdAt |-> 3, price |-> price, stock |-> stock,
            sku |-> <<"S", "H", "-", "7">>,
            name |-> <<"S", "h", "e", "l", "l", " ", "H", "X", "7">>,
            description |-> NullText,
            brand |-> <<"S", "h", "e", "l", "l">>,
            type |-> <<"s", "e", "m", "i", "-", "s", "y", "n", "t", "h", "e",
                       "t", "i", "c">>,
            viscosity |-> <<"1", "0", "W", "-", "4", "0">>,
            volume_ml |-> 4000,
            application |-> <<"u", "n", "i", "v", "e", "r", "s", "a", "l">>]

\* The prices the rows take: the third product costs as much as the second
\* or more.
CatalogPrices == {<<35, 15, 15>>, <<35, 15, 19>>}

\* The catalogue tables: none, two or all of the three products, each in
\* or out of stock.
CatalogTables ==
    {[id \in ids |-> CatalogRow(id, prices[id], stocks[id])] :
        ids \in {{}, {2, 3}, CatalogIds},
        prices \in CatalogPrices,
        stocks \in [CatalogIds -> {0, 1}]}

\* A key of req.query that is given and not ''.
Truthy(v) == v # NoParam /\ v # <<>>

\* const { ..., sortBy = 'createdAt', sortOrder = 'desc', page = 1,
\* limit = 12 } = req.query, and the two parseInt.
DefaultPage == 1
DefaultLimit == 12

PageInt(query) ==
    IF query.page = NoParam THEN DefaultPage ELSE ParseInt(query.page)

LimitInt(query) ==
    IF query.limit = NoParam THEN DefaultLimit ELSE ParseInt(query.limit)

\* Variant: the first page skips one page.
SkipOnePageMore(pageInt, limitInt) ==
    IF pageInt = NaN \/ limitInt = NaN THEN NaN
    ELSE pageInt * limitInt

\* const skip = (pageInt - 1) * limitInt
Skip(pageInt, limitInt) ==
    IF pageInt = NaN \/ limitInt = NaN THEN NaN
    ELSE (pageInt - 1) * limitInt

\* The keys of where (where.price.gte and where.price.lte as gte and lte)
\* the query sets.
WhereKeys(query) ==
    {k \in {"type", "viscosity", "brand", "application"} : Truthy(query[k])}
    \cup (IF Truthy(query.q) THEN {"OR"} ELSE {})
    \cup (IF Truthy(query.volume) THEN {"volume_ml"} ELSE {})
    \cup (IF Truthy(query.minPrice) THEN {"gte"} ELSE {})
    \cup (IF Truthy(query.maxPrice) THEN {"lte"} ELSE {})
    \cup (IF query.inStock \in {"true", "false"} THEN {"stock"} ELSE {})

\* Variant: the search looks at the name only and the upper price bound is
\* exclusive.
BuildWhereNarrow(query) ==
    [set |-> WhereKeys(query),
     OR |-> <<"name">>,
     contains |-> query.q,
     type |-> query.type,
     viscosity |-> query.viscosity,
     brand |-> query.brand,
     volume_ml |-> IF Truthy(query.volume) THEN ParseInt(query.volume)
                   ELSE 0,
     application |-> query.application,
     gte |-> IF Truthy(query.minPrice) THEN ParseFloat(query.minPrice)
             ELSE 0,
     lte |-> IF ~Truthy(query.maxPrice) THEN 0
             ELSE IF ParseFloat(query.maxPrice) = NaN THEN NaN
             ELSE ParseFloat(query.maxPrice) - 1,
     stock |-> IF query.inStock = "true" THEN "gt 0" ELSE "equals 0"]

\* The where object: set holds the keys the code has set, the other fields
\* the values it gives them (0 for a number it has not set).  OR lists the
\* columns searched for the text `contains`; gte and lte are in hundredths.
BuildWhere(query) ==
    [set |-> WhereKeys(query),
     OR |-> <<"name", "description", "brand", "type", "viscosity",
              "application", "sku">>,
     contains |-> query.q,
     type |-> query.type,
     viscosity |-> query.viscosity,
     brand |-> query.brand,
     volume_ml |-> IF Truthy(query.volume) THEN ParseInt(query.volume)
                   ELSE 0,
     application |-> query.application,
     gte |-> IF Truthy(query.minPrice) THEN ParseFloat(query.minPrice)
             ELSE 0,
     lte |-> IF Truthy(query.maxPrice) THEN ParseFloat(query.maxPrice)
             ELSE 0,
     stock |-> IF query.inStock = "true" THEN "gt 0" ELSE "equals 0"]

\* The numbers handed to the database client that are NaN.
NaNKeys(where) ==
    {k \in where.set \cap {"volume_ml", "gte", "lte"} : where[k] = NaN}

\* The where object without the given keys.
WithoutKeys(where, keys) == [where EXCEPT !.set = @ \ keys]

\* The row satisfies the where object (no key of which is NaN): every key
\* that is set holds, and one of the OR columns contains the text,
\* letters folded; a null column contains nothing.
Satisfies(row, where) ==
    /\ "OR" \in where.set =>
          \E i \in DOMAIN where.OR :
              /\ row[where.OR[i]] # NullText
              /\ Contains(Fold(row[where.OR[i]]), Fold(where.contains))
    /\ \A k \in where.set \cap {"type", "viscosity", "brand", "volume_ml",
                                 "application"} : row[k] = where[k]
    /\ "gte" \in where.set => 100 * row.price >= where.gte
    /\ "lte" \in where.set => 100 * row.price <= where.lte
    /\ "stock" \in where.set =>
          IF where.stock = "gt 0" THEN row.stock > 0 ELSE row.stock = 0

\* The ids of the rows prisma.product.findMany / count select.
Matching(prods, where) ==
    {id \in DOMAIN prods : Satisfies(prods[id], where)}

ValidSortFields == {"name", "price", "createdAt", "brand", "type"}

SortField(query) ==
    IF query.sortBy \in ValidSortFields THEN query.sortBy ELSE "createdAt"

SortDirection(query) == IF query.sortOrder = "asc" THEN "asc" ELSE "desc"

\* Row a comes strictly before row b under orderBy: { [field]: direction }.
Precedes(a, b, field, direction) ==
    LET less(x, y) == IF field \in {"price", "createdAt"}
                      THEN x[field] < y[field]
                      ELSE TextBefore(x[field], y[field])
    IN IF direction = "asc" THEN less(a, b) ELSE less(b, a)

\* The orders the database may return the rows ids in: rows with equal
\* keys come in any order.
SortedLists(prods, ids, field, direction) ==
    {l \in [1..Cardinality(ids) -> ids] :
        /\ \A i, j \in DOMAIN l : i # j => l[i] # l[j]
        /\ \A i, j \in DOMAIN l :
              i < j => ~Precedes(prods[l[j]], prods[l[i]], field, direction)}

\* skip and take applied to the list; an argument that is left out (NaN)
\* is not applied.
Window(list, skip, take) ==
    LET from == IF skip = NaN THEN 0 ELSE skip
        upto == IF take = NaN \/ from + take > Len(list)
                THEN Len(list) ELSE from + take
    IN SubSeq(list, from + 1, upto)

\* Math.ceil(total / limitInt) for a positive limitInt.
Pages(total, limitInt) ==
    IF limitInt = NaN THEN NaN ELSE (total + limitInt - 1) \div limitInt

\* A set of values as a sequence.
RECURSIVE AsSeq(_)
AsSeq(S) ==
    IF S = {} THEN <<>>
    ELSE LET x == CHOOSE x \in S : TRUE IN <<x>> \o AsSeq(S \ {x})

\* Variant: the facets come from the rows the query matched.
FacetBaseMatched(prods, query) ==
    Matching(prods, WithoutKeys(BuildWhere(query), NaNKeys(BuildWhere(query))))

\* where: inStock === 'true' ? { stock: { gt: 0 } } : {}
FacetBase(prods, query) ==
    IF query.inStock = "true"
    THEN {id \in DOMAIN prods : prods[id].stock > 0}
    ELSE DOMAIN prods

\* [...new Set(filterOptions.map(p => p[column]).filter(Boolean))].sort()
Facet(prods, base, column) ==
    LET values == {prods[id][column] : id \in base} IN
    IF column = "volume_ml"
    THEN SortSeq(AsSeq(values \ {0}), LAMBDA x, y : x < y)
    ELSE SortSeq(AsSeq(values \ {NullText, <<>>}), TextBefore)

\* The aggregate over the whole table, || 0 when there is no row.
PriceRange(prods) ==
    LET prices == {prods[id].price : id \in DOMAIN prods} IN
    IF prices = {} THEN [min |-> 0, max |-> 0]
    ELSE [min |-> CHOOSE x \in prices : \A y \in prices : x <= y,
          max |-> CHOOSE x \in prices : \A y \in prices : x >= y]

Filters(prods, query) ==
    LET base == FacetBase(prods, query) IN
    [brands |-> Facet(prods, base, "brand"),
     types |-> Facet(prods, base, "type"),
     viscosities |-> Facet(prods, base, "viscosity"),
     applications |-> Facet(prods, base, "application"),
     volumes |-> Facet(prods, base, "volume_ml"),
     priceRange |-> PriceRange(prods)]

\* The response for the rows in the order list, skip and take as given to
\* findMany.
Listing(prods, query, list, skip, take) ==
    LET window == Window(list, skip, take) IN
    [op |-> "getProducts", status |-> 200, query |-> query,
     data |-> [i \in DOMAIN window |-> prods[window[i]]],
     meta |-> [page |-> PageInt(query), limit |-> LimitInt(query),
               total |-> Len(list),
               pages |-> Pages(Len(list), LimitInt(query))],
     filters |-> Filters(prods, query)]

\* The responses the handler can give.  A NaN among the arguments of a
\* database call is either refused by the client (the catch answers 500)
\* or left out of the call, depending on the client's version.
Responses(prods, query) ==
    LET where == BuildWhere(query)
        skip == Skip(PageInt(query), LimitInt(query))
        take == LimitInt(query)
        hasNaN == NaNKeys(where) # {} \/ skip = NaN \/ take = NaN
        ids == Matching(prods, WithoutKeys(where, NaNKeys(where)))
    IN {Listing(prods, query, list, skip, take) :
           list \in SortedLists(prods, ids, SortField(query),
                                SortDirection(query))}
       \cup (IF hasNaN
             THEN {[op |-> "getProducts", status |-> 500, query |-> query]}
             ELSE {})

GetProducts(query) ==
    /\ last = NoResponse
    /\ \E response \in Responses(products, query) : last' = response
    /\ UNCHANGED <<products, users, orders, orderItems, favorites, admins, sessions, req, del>>

\* The text of a number below ten.
DigitText(n) == <<Alphabet[Code("0") + n]>>

\* A query string without any key.
NoQuery ==
    [q |-> NoParam, type |-> NoParam, viscosity |-> NoParam,
     brand |-> NoParam, volume |-> NoParam, application |-> NoParam,
     minPrice |-> NoParam, maxPrice |-> NoParam, inStock |-> Undefined,
     sortBy |-> Undefined, sortOrder |-> Undefined,
     page |-> NoParam, limit |-> NoParam]

\* Query strings that filter: a search text in either case, exact values
\* (one of them in the wrong case), price bounds with and without a
\* fraction, either stock filter and a value that is neither.
FilterQueries ==
    {[NoQuery EXCEPT !.q = q, !.type = type, !.brand = brand,
                     !.volume = volume, !.minPrice = minPrice,
                     !.maxPrice = maxPrice, !.inStock = inStock] :
        q \in {NoParam, <<"s", "h", "e", "l", "l">>,
               <<"D", "I", "E", "S", "E", "L">>},
        type \in {NoParam, <<"s", "y", "n", "t", "h", "e", "t", "i", "c">>},
        brand \in {NoParam, <<"S", "h", "e", "l", "l">>,
                   <<"s", "h", "e", "l", "l">>},
        volume \in {NoParam, <<"4", "0", "0", "0">>},
        minPrice \in {NoParam, <<"1", "5">>, <<"1", "5", ".", "5">>},
        maxPrice \in {NoParam, <<"1", "9">>, <<"1", "8", ".", "9", "9">>},
        inStock \in {Undefined, "true", "false", "yes"}}

\* Query strings with the remaining exact filters, an empty value, and
\* numbers with a tail or without a digit.
ColumnQueries ==
    {[NoQuery EXCEPT !.viscosity = viscosity, !.application = application,
                     !.q = q, !.volume = volume, !.minPrice = minPrice,
                     !.maxPrice = maxPrice] :
        viscosity \in {NoParam, <<"5", "W", "-", "4", "0">>, <<>>},
        application \in {NoParam,
                         <<"u", "n", "i", "v", "e", "r", "s", "a", "l">>},
        q \in {NoParam, <<"s", "h", "-">>, <<"W", "-", "4">>},
        volume \in {NoParam, <<"4", "0", "0", "0", "m", "l">>, <<"x">>},
        minPrice \in {NoParam, <<"x">>},
        maxPrice \in {NoParam, <<"x">>}}

\* Query strings that sort and page.
PageQueries ==
    {[NoQuery EXCEPT !.sortBy = sortBy, !.sortOrder = sortOrder,
                     !.page = page, !.limit = limit] :
        sortBy \in {Undefined, "price", "brand", "stock"},
        sortOrder \in {Undefined, "asc", "up"},
        page \in {NoParam, <<"x">>} \cup {DigitText(n) : n \in 1..MaxPage},
        limit \in {NoParam, <<"x">>, <<"2", "x">>}
                  \cup {DigitText(n) : n \in 1..MaxLimit}}

Queries == FilterQueries \cup ColumnQueries \cup PageQueries

-----------------------------------------------------------------------------
(* The response leaves the server *)

Deliver ==
    /\ last # NoResponse
    /\ last' = NoResponse
    /\ UNCHANGED <<products, users, orders, orderItems, favorites, admins, sessions, req, del>>

-----------------------------------------------------------------------------
(* Specifications *)

\* The seeded catalogue, one registered user, no orders.
Init ==
    /\ products = [p \in ProductIds |->
          IF p = 1
          THEN [name |-> ShellRow.name, price |-> ShellRow.price,
                stock |-> SeedStock]
          ELSE [name |-> MannolRow.name, price |-> MannolRow.price,
                stock |-> SeedStock]]
    /\ users = [u \in {1} |->
          [email |-> "ivan@mail.ru", phone |-> "+79000000003",
           name |-> "Ivan I."]]
    /\ orders = <<>>
    /\ orderItems = <<>>
    /\ favorites = <<>>
    /\ admins = SeedAdmins
    /\ sessions = [s \in SessionIds |-> NoSession]
    /\ req = [s \in Slots |-> IdleReq]
    /\ del = NoId
    /\ last = NoResponse

\* Order placements from the given handler slots, contacts and item lists.
PlaceOrder(slots, customers, lists) ==
    \E r \in slots :
        \/ \E c \in customers, items \in lists : PlaceOrderCheck(r, c, items)
        \/ \E n \in GeneratedNumbers : PlaceOrderCommit(r, n)
        \/ PlaceOrderRespond(r)

Track ==
    \E t \in TrackingNumbers, ph \in Phones \cup {NoText} : TrackOrder(t, ph)

AdminProducts ==
    \/ \E id \in ProductIds, v \in ProductValues : UpdateProduct(id, v)
    \/ \E id \in ProductIds : DeleteProductCheck(id)
    \/ DeleteProductCommit

AdminOrders ==
    \E id \in 1..MaxOrders, b \in AdminOrderBodies : UpdateOrder(id, b)

\* The whole back end: one order placement at a time next to the admin
\* edits and the tracking lookups.
Next ==
    \/ PlaceOrder({"a"}, {Anna, Stranger, Cheat}, SmallLists)
    \/ Track
    \/ AdminProducts
    \/ AdminOrders
    \/ Deliver

Spec == Init /\ [][Next]_vars

\* Concurrent order placements alone: no admin edits.
NextOrders ==
    \/ PlaceOrder(Slots, {Anna, Ivan}, ItemLists)
    \/ Deliver

SpecOrders == Init /\ [][NextOrders]_vars

\* Guest checkouts with and without a delivery address.
NextCheckout ==
    \/ PlaceOrder({"a"}, Walkers \cup {Anna}, SmallLists)
    \/ Deliver

SpecCheckout == Init /\ [][NextCheckout]_vars

Register(slots) ==
    \E r \in slots :
        \/ \E b \in RegisterBodies : RegisterLookup(r, b)
        \/ RegisterCreate(r)

\* Product 3 is not in the catalogue.
Favorites(slots) ==
    \E r \in slots :
        \/ \E e \in Emails \cup {NoText}, p \in {1, 3} :
              \/ AddFavoriteUser(r, e, p)
              \/ RemoveFavoriteUser(r, e, p)
        \/ AddFavoriteProduct(r)
        \/ AddFavoriteFind(r)
        \/ AddFavoriteWrite(r)
        \/ RemoveFavoriteDelete(r)

\* The public user routes, two requests at a time, next to the orders of a
\* registered user.
NextAccounts ==
    \/ Register(Slots)
    \/ Favorites(Slots)
    \/ PlaceOrder({"a"}, {Borrower, Ivan},
                  {<<[productId |-> 1, quantity |-> 1]>>})
    \/ Deliver

SpecAccounts == Init /\ [][NextAccounts]_vars

\* The order desk: guest orders next to the admin's status edits.
NextStatus ==
    \/ PlaceOrder({"a"}, {Anna}, {<<[productId |-> 1, quantity |-> 1]>>})
    \/ \E id \in 1..MaxOrders, b \in StatusBodies : UpdateOrder(id, b)
    \/ Deliver

SpecStatus == Init /\ [][NextStatus]_vars

\* Orders for the first product, one line each.
OneLineLists == {<<[productId |-> 1, quantity |-> q]>> : q \in Quantities}

\* Two order placements at a time next to the admin's product creates and
\* updates.
NextStock ==
    \/ PlaceOrder(Slots, {Anna}, OneLineLists)
    \/ \E id \in 1..MaxProducts, v \in StockValues : UpdateProduct(id, v)
    \/ \E v \in StockValues, skuTaken \in BOOLEAN : CreateProduct(v, skuTaken)
    \/ Deliver

SpecStock == Init /\ [][NextStock]_vars

\* The admin's logins, logouts and status checks from two browsers, two
\* logins in flight at a time.
NextSession ==
    \/ \E r \in Slots :
          \/ \E s \in SessionIds, b \in LoginBodies : LoginFind(r, s, b)
          \/ \E now \in LoginTimes : LoginUpdate(r, now)
    \/ \E s \in SessionIds, failed \in BOOLEAN : Logout(s, failed)
    \/ \E s \in SessionIds : AdminStatus(s)
    \/ Deliver

SpecSession == Init /\ [][NextSession]_vars

\* A catalogue, no user, no order.
InitCatalog ==
    /\ products \in CatalogTables
    /\ users = <<>>
    /\ orders = <<>>
    /\ orderItems = <<>>
    /\ favorites = <<>>
    /\ admins = SeedAdmins
    /\ sessions = [s \in SessionIds |-> NoSession]
    /\ req = [s \in Slots |-> IdleReq]
    /\ del = NoId
    /\ last = NoResponse

\* Catalogue queries against a catalogue that stays as it is.
NextCatalog ==
    \/ \E query \in Queries : GetProducts(query)
    \/ Deliver

SpecCatalog == InitCatalog /\ [][NextCatalog]_vars

-----------------------------------------------------------------------------
(* Properties *)

\* Units of product p on the stored line items of order id.
QuantityIn(id, p) ==
    LET sel == SelectSeq(orderItems,
                   LAMBDA it : it.orderId = id /\ it.productId = p)
    IN SumOf([i \in DOMAIN sel |-> sel[i].quantity])

\* Units of product p on all stored line items.
OrderedQuantity(p) ==
    SumOf([i \in DOMAIN orders |-> QuantityIn(i, p)])

\* C1: with order placements alone (no admin edits), the quantities of the
\* committed order lines of a product never add up to more than the stock
\* the product started with.
NoOverselling ==
    \A p \in ProductIds : OrderedQuantity(p) <= SeedStock

\* C2: of two placed orders for the same product whose quantities together
\* exceed the stock the product started with, at most one is stored: no two
\* stored orders have lines for one product that add up to more than that
\* stock.
AtMostOneWinner ==
    \A i, j \in DOMAIN orders : \A p \in ProductIds :
        (i < j /\ QuantityIn(i, p) > 0 /\ QuantityIn(j, p) > 0)
            => QuantityIn(i, p) + QuantityIn(j, p) <= SeedStock

\* C22: with order placements alone, the stock of every product is the stock
\* some serial execution of the committed placements leaves: the stock the
\* product started with less the units on its committed order lines (every
\* order of the committed placements gives this one value), so that no
\* committed decrement is lost.
StockWritesSerializable ==
    \A p \in ProductIds :
        products[p].stock = SeedStock - OrderedQuantity(p)

\* C23: the stored stock of every product is a non-negative integer in
\* every reachable state, whatever the interleaving of order placements and
\* admin product creates and updates.
StockNeverNegative ==
    \A p \in DOMAIN products : products[p].stock \in Nat

\* Two placements that read the same stock have both committed, for more
\* units together than the product had, and the stock has come down to zero.
RaceLeavesStockAtZero ==
    /\ Len(orders) = 2
    /\ QuantityIn(1, 1) + QuantityIn(2, 1) > SeedStock
    /\ products[1].stock = 0

-----------------------------------------------------------------------------
(* Rejections of the line-item checks *)

LineItemErrors ==
    {"Some products not found", "Product not found", "Insufficient stock"}

\* This step is the first turn of a create-order handler ending in an answer
\* to a body that passed orderSchema.
CheckAnswered ==
    /\ last = NoResponse
    /\ last'.op = "createOrder"
    /\ "request" \in DOMAIN last'
    /\ last'.error # "validation"

\* C3: a step in which order placement is rejected at a line-item check
\* (some product not found, or a line short of stock) changes no table: no
\* order row, no order item, no stock.
RejectionWritesNothing ==
    [][(CheckAnswered /\ last'.error \in LineItemErrors)
          => UNCHANGED <<products, users, orders, orderItems, favorites, admins, sessions>>]_vars

\* An order was rejected for its second line, after a first line that passed.
RejectedAtSecondLine ==
    /\ last.op = "createOrder"
    /\ last.error = "Insufficient stock"
    /\ Len(last.request) = 2
    /\ last.request[2].productId = last.productId
    /\ last.request[1].productId # last.productId

-----------------------------------------------------------------------------
(* The commit *)

OrdersHaveTheirItems ==
    /\ \A i \in DOMAIN orderItems : orderItems[i].orderId \in DOMAIN orders
    /\ \A o \in DOMAIN orders : ItemsOf(orderItems, o) # <<>>

\* Slot r runs its transaction in this step.
CommitTurn(r) == req[r].pc = "validated" /\ req'[r].pc # "validated"

\* The order row, every prepared line item and every prepared stock write of
\* slot r are in the tables after the step.
Landed(r) ==
    LET id == Len(orders) + 1 IN
    /\ Len(orders') = id
    /\ SubSeq(orders', 1, id - 1) = orders
    /\ orders'[id].totalAmount = req[r].totalAmount
    /\ orders'[id].phone = req[r].customer.phone
    /\ orderItems' = orderItems \o
          [i \in DOMAIN req[r].orderItems |->
              [orderId |-> id,
               productId |-> req[r].orderItems[i].productId,
               quantity |-> req[r].orderItems[i].quantity,
               priceEach |-> req[r].orderItems[i].priceEach]]
    /\ \A i \in DOMAIN req[r].stockUpdates :
          /\ req[r].stockUpdates[i].id \in DOMAIN products'
          /\ products'[req[r].stockUpdates[i].id].stock
                = req[r].stockUpdates[i].stock
    /\ req'[r].pc = "committed"

NothingLanded(r) ==
    /\ UNCHANGED <<products, users, orders, orderItems, favorites, admins, sessions>>
    /\ req'[r].pc = "idle"
    /\ last'.op = "createOrder"
    /\ last'.status = 500

\* C4: the commit step is all or nothing.  Every stored line item belongs to
\* a stored order and every stored order has line items; and a step that
\* runs the transaction of a handler either stores the order row, all its
\* line items and all its stock writes, or (a constraint failed) changes no
\* table and answers 500.
CommitIsAtomic ==
    /\ []OrdersHaveTheirItems
    /\ [][\A r \in Slots : CommitTurn(r) => (Landed(r) \/ NothingLanded(r))]_vars

\* A transaction failed at a line item, after its order row was inserted.
CommitRolledBack ==
    /\ last.op = "createOrder"
    /\ last.status = 500
    /\ last.error = "OrderItem_productId_fkey"

-----------------------------------------------------------------------------
(* Totals and prices *)

LineSum(id) ==
    LET lines == ItemsOf(orderItems, id) IN
    SumOf([i \in DOMAIN lines |-> lines[i].priceEach * lines[i].quantity])

\* C5: every stored order's totalAmount is the sum of priceEach * quantity
\* over its line items, and no stored order comes from a body that carried
\* a totalAmount of its own.
TotalIsLineSum ==
    \A o \in DOMAIN orders :
        /\ orders[o].totalAmount = LineSum(o)
        /\ orders[o].contactName # Cheat.contactName

\* Stored: an order of two lines and a line of more than one unit.
TotalOfSeveralUnits ==
    /\ \E o \in DOMAIN orders : Len(ItemsOf(orderItems, o)) = 2
    /\ \E i \in DOMAIN orderItems : orderItems[i].quantity > 1

\* C6: no step changes a stored line item's priceEach or a stored order's
\* totalAmount, whatever the admin does to the product afterwards.
PriceSnapshot ==
    [][/\ \A i \in DOMAIN orderItems :
             /\ i \in DOMAIN orderItems'
             /\ orderItems'[i].priceEach = orderItems[i].priceEach
       /\ \A o \in DOMAIN orders :
             /\ o \in DOMAIN orders'
             /\ orders'[o].totalAmount = orders[o].totalAmount]_vars

\* A stored line item whose product now has another price.
PriceChangedAfterOrder ==
    \E i \in DOMAIN orderItems :
        /\ orderItems[i].productId \in DOMAIN products
        /\ products[orderItems[i].productId].price # orderItems[i].priceEach

-----------------------------------------------------------------------------
(* Not-Found and Insufficient-Stock *)

Missing(items) ==
    {i \in DOMAIN items : items[i].productId \notin DOMAIN products}

Short(items) ==
    {i \in DOMAIN items \ Missing(items) :
        products[items[i].productId].stock < items[i].quantity}

\* C7: when a requested product id is not in the catalogue the placement is
\* answered 404 and the step changes no table, whatever the other lines are.
NotFoundBeforeAnyWrite ==
    [][(CheckAnswered /\ Missing(last'.request) # {})
          => /\ last'.status = 404
             /\ UNCHANGED <<products, users, orders, orderItems, favorites, admins, sessions, req>>]_vars

\* A 404 for a two-line order whose other line is in the catalogue and in
\* stock.
NotFoundNextToValidLine ==
    /\ last.op = "createOrder"
    /\ last.status = 404
    /\ Len(last.request) = 2
    /\ Cardinality(Missing(last.request)) = 1
    /\ Short(last.request) = {}

\* C8: when every product id resolves and some line asks for more than the
\* product's stock, the answer is Insufficient-Stock for the first such line
\* in list order, with that product's id, name and available stock.
InsufficientStockNamesFirstLine ==
    [][(/\ CheckAnswered
        /\ Missing(last'.request) = {}
        /\ Short(last'.request) # {})
          => LET items == last'.request
                 k == CHOOSE i \in Short(items) :
                         \A j \in Short(items) : i <= j
                 product == products[items[k].productId]
             IN /\ last'.status = 400
                /\ last'.error = "Insufficient stock"
                /\ last'.productId = items[k].productId
                /\ last'.name = product.name
                /\ last'.available = product.stock]_vars

\* C21: order placement answers 404 only when some requested product id is
\* not in the catalogue; a validated order whose every line names a stored
\* product, the same product in several lines included, is never answered
\* 404.
NotFoundOnlyWhenMissing ==
    [][(CheckAnswered /\ last'.status = 404)
          => Missing(last'.request) # {}]_vars

-----------------------------------------------------------------------------
(* Delivery address *)

\* This step answers an order placement whose body has no deliveryAddress
\* and is valid in every other key.
AnsweredWithoutAddress ==
    /\ last = NoResponse
    /\ last'.op = "createOrder"
    /\ "contact" \in DOMAIN last'
    /\ last'.contact.deliveryAddress = NoAddress
    /\ last'.contact.clientTotal = 0
    /\ last'.contact.phone \in Phones

\* C11: an otherwise valid order without a deliveryAddress is answered 400
\* (validation) with no table and no handler changed when its
\* deliveryMethod is "delivery", and is never answered with a validation
\* failure when its deliveryMethod is "pickup" or left out (stored as
\* pickup); no handler goes on, and no order is stored, with a delivery
\* method of "delivery" and no address.
DeliveryNeedsAddress ==
    /\ [](\A o \in DOMAIN orders :
            /\ orders[o].deliveryMethod \in {"pickup", "delivery"}
            /\ orders[o].deliveryMethod = "delivery"
                  => orders[o].deliveryAddress # NoAddress)
    /\ [][/\ AnsweredWithoutAddress =>
               IF last'.contact.deliveryMethod = "delivery"
               THEN /\ last'.status = 400
                    /\ last'.error = "validation"
                    /\ UNCHANGED <<products, users, orders, orderItems, favorites, admins, sessions, req>>
               ELSE last'.error # "validation"
           /\ \A r \in Slots :
                 (req[r].pc = "idle" /\ req'[r].pc = "validated")
                    => ~(/\ req'[r].customer.deliveryMethod = "delivery"
                         /\ req'[r].customer.deliveryAddress = NoAddress)]_vars

\* The payload without an address was stored as a pickup order, and the same
\* payload sent for delivery has just been answered 400.
DeliveryWithoutAddressRejected ==
    /\ \E o \in DOMAIN orders :
          /\ orders[o].contactName = Walker("pickup").contactName
          /\ orders[o].deliveryMethod = "pickup"
          /\ orders[o].deliveryAddress = NoAddress
    /\ last.op = "createOrder"
    /\ last.status = 400
    /\ last.error = "validation"
    /\ last.contact = Walker("delivery")

-----------------------------------------------------------------------------
(* Product deletion *)

Referenced(p) == \E i \in DOMAIN orderItems : orderItems[i].productId = p

-----------------------------------------------------------------------------
(* Users and favorites *)

OneRowPerPair ==
    \A i, j \in DOMAIN favorites :
        (/\ favorites[i].userId = favorites[j].userId
         /\ favorites[i].productId = favorites[j].productId) => i = j

\* This step answers an add-favorite request that found its user and its
\* product.
AddFavoriteAnswered(r) ==
    /\ req[r].pc = "favFound"
    /\ req'[r].pc = "idle"
    /\ req[r].userId \in DOMAIN users
    /\ req[r].productId \in DOMAIN products

\* C12: there is never more than one Favorite row per (user, product) pair,
\* and every add-favorite request for an existing user and product is
\* answered successfully and leaves exactly one row of its pair.
IdempotentFavoriteAdd ==
    /\ []OneRowPerPair
    /\ [][\A r \in Slots : AddFavoriteAnswered(r) =>
             /\ last'.op = "addFavorite"
             /\ last'.status = 200
             /\ Cardinality(FavoriteRows(favorites', req[r].userId,
                                         req[r].productId)) = 1]_vars

\* Requests one after another: an add-favorite request for an existing user
\* and product that no other favorite request overlaps is answered
\* successfully and leaves exactly one row of its pair.
SequentialFavoriteAdd ==
    /\ []OneRowPerPair
    /\ [][\A r \in Slots :
            (/\ AddFavoriteAnswered(r)
             /\ \A o \in Slots \ {r} :
                    req[o].pc \notin {"favUser", "favProduct", "favFound"}
             /\ req[r].found
                   = (FavoriteRows(favorites, req[r].userId,
                                   req[r].productId) # {}))
            => /\ last'.status = 200
               /\ Cardinality(FavoriteRows(favorites', req[r].userId,
                                           req[r].productId)) = 1]_vars

NoTwoUsersShareEmail ==
    \A u, v \in DOMAIN users : users[u].email = users[v].email => u = v

\* This step answers a registration whose email belongs to a stored user.
RegisteredEmailAnswered ==
    /\ last = NoResponse
    /\ last'.op = "register"
    /\ UserByEmail(users, last'.email) # {}

\* C13: no two stored users share an email, and every registration request
\* for an email that belongs to a stored user is answered Conflict (409)
\* and leaves the users as they were.
RegistrationConflict ==
    /\ []NoTwoUsersShareEmail
    /\ [][RegisteredEmailAnswered =>
             /\ last'.status = 409
             /\ users' = users]_vars

\* C15: a step that answers an order placement whose transaction has
\* committed answers 201 with the order's id, numbers, total and status,
\* whether or not the refresh of the user row went through.
RefreshIsSwallowed ==
    [][\A r \in Slots :
          (req[r].pc = "committed" /\ req'[r].pc = "idle")
             => /\ last' = Created(req[r].order, req[r].orderItems)
                /\ orders' = orders]_vars

-----------------------------------------------------------------------------
(* Catalogue query *)

Range(seq) == {seq[i] : i \in DOMAIN seq}

\* The latest response is a result page of the catalogue query.
Listed == last.op = "getProducts" /\ last.status = 200

InStockIds == {id \in DOMAIN products : products[id].stock > 0}

OutOfStockIds == {id \in DOMAIN products : products[id].stock = 0}

\* The facet lists of the latest response are the distinct values, null and
\* empty ones left out and in ascending order, that the products of base
\* have in the five facet columns.
FacetsAreOver(base) ==
    LET texts(column) ==
            {products[id][column] : id \in base} \ {NullText, <<>>}
        ascending(list) ==
            \A i, j \in DOMAIN list : i < j => TextBefore(list[i], list[j])
        f == last.filters
    IN /\ Range(f.brands) = texts("brand") /\ ascending(f.brands)
       /\ Range(f.types) = texts("type") /\ ascending(f.types)
       /\ Range(f.viscosities) = texts("viscosity")
       /\ ascending(f.viscosities)
       /\ Range(f.applications) = texts("application")
       /\ ascending(f.applications)
       /\ Range(f.volumes) = {products[id].volume_ml : id \in base} \ {0}
       /\ \A i, j \in DOMAIN f.volumes :
             i < j => f.volumes[i] < f.volumes[j]

\* C16 as stated: the facet lists are computed over the products that match
\* the stock-presence filter of the query (stock > 0 for inStock=true,
\* stock = 0 for inStock=false), whatever the other filters, and over the
\* whole catalogue when the query has no stock-presence filter.
FacetsOverStockFilter ==
    Listed =>
        FacetsAreOver(IF last.query.inStock = "true" THEN InStockIds
                      ELSE IF last.query.inStock = "false" THEN OutOfStockIds
                      ELSE DOMAIN products)

\* C16 amended: the facet lists are computed over the products in stock
\* when inStock=true, whatever the other filters, and over the whole
\* catalogue for every other query, inStock=false included; so with
\* inStock=true every facet value is the value of a product in stock.
FacetsOverInStock ==
    Listed =>
        /\ FacetsAreOver(IF last.query.inStock = "true" THEN InStockIds
                         ELSE DOMAIN products)
        /\ last.query.inStock = "true" =>
              \A brand \in Range(last.filters.brands) :
                  \E id \in InStockIds : products[id].brand = brand

\* A query for products in stock with a further filter that leaves fewer
\* rows than are in stock; a brand of the catalogue is out of stock and not
\* among the facets.
FacetsWiderThanPage ==
    /\ Listed
    /\ last.query.inStock = "true"
    /\ last.meta.total < Cardinality(InStockIds)
    /\ \E id \in OutOfStockIds :
          products[id].brand \notin Range(last.filters.brands)
    /\ last.filters.brands # <<>>

\* The numeric keys of the query whose text is given and is no number.
Unparseable(query) ==
    {k \in {"page", "limit"} :
        query[k] # NoParam /\ ParseInt(query[k]) = NaN}
    \cup {k \in {"volume"} : Truthy(query[k]) /\ ParseInt(query[k]) = NaN}
    \cup {k \in {"minPrice", "maxPrice"} :
            Truthy(query[k]) /\ ParseFloat(query[k]) = NaN}

\* The query without the given keys.
Omitting(query, keys) ==
    [k \in DOMAIN query |-> IF k \in keys THEN NoParam ELSE query[k]]

\* C17: a query with a page, limit, volume, minPrice or maxPrice that is no
\* number is answered with a result page, and the page is the one the
\* query gets without those keys (page 1 and limit 12 for page and limit,
\* no filter for the others).
LenientParsing ==
    (last.op = "getProducts" /\ Unparseable(last.query) # {}) =>
        /\ last.status = 200
        /\ LET clean == Omitting(last.query, Unparseable(last.query)) IN
           [last EXCEPT !.query = clean] \in Responses(products, clean)

\* The product satisfies every filter the query supplies (a key with an
\* empty value supplies none).
QueryMatch(row, query) ==
    /\ \A k \in {"type", "viscosity", "brand", "application"} :
          Truthy(query[k]) => row[k] = query[k]
    /\ Truthy(query.volume) => row.volume_ml = ParseInt(query.volume)
    /\ Truthy(query.minPrice) => ParseFloat(query.minPrice) <= 100 * row.price
    /\ Truthy(query.maxPrice) => 100 * row.price <= ParseFloat(query.maxPrice)
    /\ query.inStock = "true" => row.stock > 0
    /\ query.inStock = "false" => row.stock = 0
    /\ Truthy(query.q) =>
          \E column \in {"name", "description", "brand", "type", "viscosity",
                          "application", "sku"} :
              /\ row[column] # NullText
              /\ Contains(Fold(row[column]), Fold(query.q))

MatchSet(query) ==
    {id \in DOMAIN products : QueryMatch(products[id], query)}

\* The rows of the list are in the order of the query: by sortBy when it
\* is one of name, price, createdAt, brand, type and by createdAt
\* otherwise, ascending for sortOrder=asc and descending otherwise.
InQueryOrder(list, query) ==
    LET field == IF query.sortBy \in {"name", "price", "createdAt", "brand",
                                      "type"}
                 THEN query.sortBy ELSE "createdAt"
        notAfter(a, b) ==
            IF field \in {"price", "createdAt"}
            THEN products[a][field] <= products[b][field]
            ELSE ~TextBefore(products[b][field], products[a][field])
    IN \A i, j \in DOMAIN list :
          i < j => IF query.sortOrder = "asc"
                   THEN notAfter(list[i], list[j])
                   ELSE notAfter(list[j], list[i])

\* The latest response is a result page for a query all of whose numbers
\* parse.
ListedParsed == Listed /\ Unparseable(last.query) = {}

\* C18: for page >= 1 and limit > 0 the data of the response is the part
\* of a full list of the matching products, in the order of the query,
\* that starts at offset (page - 1) * limit and has limit rows, or as many
\* as remain; meta.total is the number of matching products and
\* meta.pages is ceil(total / limit).
Pagination ==
    ListedParsed =>
        LET page == last.meta.page
            limit == last.meta.limit
            total == Cardinality(MatchSet(last.query))
            offset == (page - 1) * limit
            count == IF total - offset >= limit THEN limit
                     ELSE IF total > offset THEN total - offset
                     ELSE 0
        IN /\ page >= 1 /\ limit > 0
           /\ last.meta.total = total
           /\ (last.meta.pages - 1) * limit < total
           /\ total <= last.meta.pages * limit
           /\ Len(last.data) = count
           /\ \E full \in [1..total -> MatchSet(last.query)] :
                 /\ Range(full) = MatchSet(last.query)
                 /\ InQueryOrder(full, last.query)
                 /\ \A i \in 1..count :
                       last.data[i] = products[full[offset + i]]

\* The second page of three products, one to a page, cheapest first, two
\* of them at one price.
SecondPageByPrice ==
    /\ ListedParsed
    /\ last.query.sortBy = "price"
    /\ last.query.sortOrder = "asc"
    /\ last.meta.page = 2
    /\ last.meta.limit = 1
    /\ last.meta.total = 3
    /\ last.meta.pages = 3
    /\ Len(last.data) = 1
    /\ \E id \in DOMAIN products : id # last.data[1].id
                                     /\ products[id].price = last.data[1].price

\* C19: the products counted and returned by a query are those that
\* satisfy every filter it supplies: equality for type, viscosity, brand,
\* volume and application, minPrice <= price <= maxPrice with either bound
\* optional, stock > 0 for inStock=true and stock = 0 for inStock=false,
\* and for q a match of the text, letters folded, inside one of name,
\* description, brand, type, viscosity, application, sku.
MatchingSemantics ==
    ListedParsed =>
        /\ last.meta.total = Cardinality(MatchSet(last.query))
        /\ {last.data[i].id : i \in DOMAIN last.data} \subseteq
              MatchSet(last.query)
        /\ (last.meta.page = 1 /\ last.meta.limit >= last.meta.total) =>
              {last.data[i].id : i \in DOMAIN last.data}
                  = MatchSet(last.query)

\* A search in capitals that only a description matches, with a price
\* bound equal to the price of the product found, in a catalogue of three.
SearchFoundByDescription ==
    /\ ListedParsed
    /\ last.query.q = <<"D", "I", "E", "S", "E", "L">>
    /\ last.query.minPrice = <<"1", "5">>
    /\ last.meta.total = 1
    /\ last.data[1].price = 15
    /\ Cardinality(DOMAIN products) = 3

-----------------------------------------------------------------------------
(* Identifiers *)

\* C9: no two stored orders share an orderNumber, and no two share a
\* trackingNumber, after any order creations and admin tracking edits.
UniqueNumbers ==
    \A i, j \in DOMAIN orders :
        i # j => /\ orders[i].orderNumber # orders[j].orderNumber
                 /\ orders[i].trackingNumber # orders[j].trackingNumber

\* Two orders are stored and an admin edit to a tracking number in use was
\* turned down.
TrackingEditCollided ==
    /\ Len(orders) = 2
    /\ last.op = "updateOrder"
    /\ last.status = 500

-----------------------------------------------------------------------------
(* Tracking lookup *)

Tracked == {o \in DOMAIN orders : orders[o].trackingNumber = last.trackingNumber}

\* The answer carries the order's data without deliveryAddress and email.
Discloses(order) ==
    /\ last.status = 200
    /\ DOMAIN last.body \cap {"deliveryAddress", "email"} = {}
    /\ {"id", "orderNumber", "status", "totalAmount", "items"}
          \subseteq DOMAIN last.body
    /\ last.body.id = order.id
    /\ last.body.items = ItemsOf(orderItems, order.id)

Withholds(status) ==
    /\ last.status = status
    /\ DOMAIN last.body = {}

\* C10 as stated: for a tracking number that exists, the order is returned
\* (without deliveryAddress and email) when the supplied phone equals the
\* stored phone, and every other lookup is answered Forbidden with no data.
TrackForbiddenUnlessMatch ==
    (last.op = "track" /\ Tracked # {})
        => \A o \in Tracked :
              IF last.phone = orders[o].phone
              THEN Discloses(orders[o])
              ELSE Withholds(403)

\* C10 amended: as above for a lookup that supplies a phone; a lookup with
\* no phone (or an empty one) is a validation failure (400) with no data.
TrackDisclosure ==
    (last.op = "track" /\ Tracked # {})
        => \A o \in Tracked :
              IF last.phone = NoText
              THEN Withholds(400)
              ELSE IF last.phone = orders[o].phone
              THEN Discloses(orders[o])
              ELSE Withholds(403)

\* A lookup was answered with the order.
TrackAnswered ==
    /\ last.op = "track"
    /\ last.status = 200
    /\ Tracked # {}

-----------------------------------------------------------------------------
(* Order status *)

StatusInDomain == \A o \in DOMAIN orders : orders[o].status \in ValidStatuses

CreatedNew ==
    \A o \in DOMAIN orders' \ DOMAIN orders : orders'[o].status = "new"

\* The update was answered 400 and no order changed.
UpdateRejected ==
    /\ last'.op = "updateOrder"
    /\ last'.status = 400
    /\ orders' = orders

\* C20: every order is created with status "new"; in every reachable state
\* every stored order's status is one of the five; an admin order update
\* of a stored order whose body carries any other status value is answered
\* 400 and leaves status, tracking number and notes of the orders as they
\* were.
OrderStatusDomain ==
    /\ []StatusInDomain
    /\ [][/\ CreatedNew
          /\ \A id \in DOMAIN orders, body \in StatusBodies :
                (/\ UpdateOrder(id, body)
                 /\ body.status # Undefined
                 /\ body.status \notin ValidStatuses) => UpdateRejected]_vars

\* The part of the order status domain that the code keeps: orders start as
\* "new", stored statuses stay among the five, and an update of a stored
\* order whose status is a non-empty text outside the five is answered 400
\* and changes nothing.
StatusDomainKept ==
    /\ []StatusInDomain
    /\ [][/\ CreatedNew
          /\ \A id \in DOMAIN orders, body \in StatusBodies :
                (/\ UpdateOrder(id, body)
                 /\ IsSet(body.status)
                 /\ body.status \notin ValidStatuses) => UpdateRejected]_vars

-----------------------------------------------------------------------------
(* Frame of the admin order update *)

\* The columns of an order row that PUT /api/admin/orders/:id may write.
UpdatableColumns == {"status", "trackingNumber", "notes"}

\* This step is an admin order update.
UpdateOrderStep == last = NoResponse /\ last'.op = "updateOrder"

\* C24: an admin order update changes nothing but status, trackingNumber
\* and notes of the order it names: every other column of every order, the
\* line items, the products with their stock and the users stay as they
\* were, also when the status is set to "cancelled".
UpdateOrderFrame ==
    [][UpdateOrderStep =>
          /\ UNCHANGED <<products, orderItems, users, favorites, admins, sessions>>
          /\ DOMAIN orders' = DOMAIN orders
          /\ \A o \in DOMAIN orders :
                /\ DOMAIN orders'[o] = DOMAIN orders[o]
                /\ \A f \in DOMAIN orders[o] \ UpdatableColumns :
                      orders'[o][f] = orders[o][f]
                /\ o # last'.id => orders'[o] = orders[o]]_vars

\* An update has set an order to "cancelled" and the units of its line are
\* still out of stock.
CancelledKeepsStockOut ==
    /\ last.op = "updateOrder"
    /\ last.status = 200
    /\ last.id \in DOMAIN orders
    /\ orders[last.id].status = "cancelled"
    /\ QuantityIn(last.id, 1) > 0
    /\ products[1].stock = SeedStock - OrderedQuantity(1)

-----------------------------------------------------------------------------
(* Admin session *)

Authenticated(s) == sessions[s].adminId # NoId

\* This step answers a request of session s with the given op and status.
Answers(op, status, s) ==
    /\ last = NoResponse
    /\ last'.op = op
    /\ last'.status = status
    /\ last'.session = s

\* The body passes the schema and names no administrator, an inactive one,
\* or one whose password is another.
BadCredentials(body) ==
    /\ body.username # NoText
    /\ body.password # NoText
    /\ \A a \in DOMAIN admins :
          \/ admins[a].username # body.username
          \/ ~admins[a].isActive
          \/ admins[a].password # Hash(body.password)

====
